---- MODULE Spec2Model ----
(***************************************************************************)
(* Model of src/main.py: the personal-finance analysis pipeline            *)
(* (categorize -> basic stats / monthly analysis / category stats ->       *)
(* historical analysis -> budget template -> budget comparison -> report). *)
(*                                                                         *)
(* Numbers.  Every monetary value and every percentage is an integer       *)
(* number of thousandths (1.00 is 1000, 0.006 is 6), so that round(x, 2)   *)
(* and round(x) are real operations on the model's values.  Python rounds  *)
(* to nearest with ties to even; binary floating-point representation      *)
(* error is not modelled.  Counts are plain integers.                      *)
(*                                                                         *)
(* Python values.  A dict is an insertion-ordered sequence of              *)
(* [key, val] records.  A value whose type the code tests or relies on     *)
(* carries a tag k ("num", "str", "map", "bad", "absent").                 *)
(***************************************************************************)
EXTENDS Integers, Sequences, FiniteSets, TLC

VARIABLES
    pc,                 \* the stage about to run, "done" or "error"
    error,              \* "" or the exception that ended the run
    transactions,       \* the (categorized) transaction list
    stats,              \* result of calculate_basic_stats
    months_analysis,    \* result of analyze_by_time
    category_stats,     \* result of calculate_by_category
    analysis,           \* result of analyze_historical_spending
    budget,             \* result of create_budget_template
    budget_comparison,  \* result of compare_budget_vs_actual
    done,               \* the stages that have returned
    arg_description,    \* the description given to categorize_transaction
    arg_categories,     \* the category table given to categorize_transaction
    matched_category    \* result of categorize_transaction

\* The variables of a direct call of categorize_transaction.
callvars == <<arg_description, arg_categories, matched_category>>

vars == <<pc, error, transactions, stats, months_analysis, category_stats,
          analysis, budget, budget_comparison, done, callvars>>

None == [k |-> "none"]

-----------------------------------------------------------------------------
(* Bounds of the model.                                                    *)

MaxTxMain  == 2     \* rows imported by main()
MaxTxStats == 4     \* transactions, amount-parsing inputs
MaxTxCat   == 3     \* transactions, per-category inputs
MaxTxTop   == 4     \* transactions, top-categories inputs
MaxTxDate  == 2     \* transactions, date-parsing inputs
MaxAvgStep == 10    \* historical averages are 0, AvgStep, .., MaxAvgStep * AvgStep
AvgStep    == 700   \* 0.70
MaxTxCmp   == 2     \* transactions behind the category stats given to the comparator
MaxLimit   == 2     \* budget limits given to the comparator are 0 .. MaxLimit (units)
MaxDescLen == 2     \* characters of a description given to categorize_transaction

-----------------------------------------------------------------------------
(* Arithmetic.                                                             *)

Abs(x) == IF x < 0 THEN -x ELSE x

\* The integer nearest to n / d (d > 0), ties to the even integer: Python's round.
RoundHalfEven(n, d) ==
    LET q == n \div d
        r == n % d
    IN  IF 2 * r > d \/ (2 * r = d /\ q % 2 = 1) THEN q + 1 ELSE q

\* round(x, 2) of a value in thousandths.
Round2(x) == 10 * RoundHalfEven(x, 10)

\* round(x) of a value in thousandths: an int, kept in thousandths.
Round0(x) == 1000 * RoundHalfEven(x, 1000)

\* round(total / count, 2), count > 0.
Round2Div(total, count) == 10 * RoundHalfEven(total, 10 * count)

-----------------------------------------------------------------------------
(* Insertion-ordered dicts: sequences of [key |-> k, val |-> v].           *)

Keys(d) == {d[i].key : i \in 1..Len(d)}

KeySeq(d) == [i \in 1..Len(d) |-> d[i].key]

Has(d, k) == \E i \in 1..Len(d) : d[i].key = k

IndexOf(d, k) == CHOOSE i \in 1..Len(d) : d[i].key = k

\* d.get(k, default)
Get(d, k, default) == IF Has(d, k) THEN d[IndexOf(d, k)].val ELSE default

\* d[k] = v
Put(d, k, v) ==
    IF Has(d, k) THEN [d EXCEPT ![IndexOf(d, k)].val = v]
    ELSE Append(d, [key |-> k, val |-> v])

\* defaultdict(float): d[k] += x
AddTo(d, k, x) == Put(d, k, Get(d, k, 0) + x)

\* sum(d.values())
RECURSIVE SumValues(_)
SumValues(d) == IF d = <<>> THEN 0 ELSE d[1].val + SumValues(Tail(d))

\* seq[:n]
Take(s, n) == SubSeq(s, 1, IF Len(s) < n THEN Len(s) ELSE n)

\* Stable insertion of e after every element whose val is >= e.val.
RECURSIVE InsertDesc(_, _)
InsertDesc(s, e) ==
    IF s = <<>> THEN <<e>>
    ELSE IF s[1].val >= e.val THEN <<s[1]>> \o InsertDesc(Tail(s), e)
    ELSE <<e>> \o s

RECURSIVE SortDescFrom(_, _)
SortDescFrom(s, sorted) ==
    IF s = <<>> THEN sorted ELSE SortDescFrom(Tail(s), InsertDesc(sorted, s[1]))

\* A faulty variant of SortByValueDesc: reverse=True forgotten (ascending, stable).
RECURSIVE InsertAsc(_, _)
InsertAsc(s, e) ==
    IF s = <<>> THEN <<e>>
    ELSE IF s[1].val <= e.val THEN <<s[1]>> \o InsertAsc(Tail(s), e)
    ELSE <<e>> \o s

RECURSIVE SortAscFrom(_, _)
SortAscFrom(s, sorted) ==
    IF s = <<>> THEN sorted ELSE SortAscFrom(Tail(s), InsertAsc(sorted, s[1]))

SortByValueAsc(d) == SortAscFrom(d, <<>>)

\* sorted(d.items(), key=lambda i: i[1], reverse=True): stable, descending.
SortByValueDesc(d) == SortDescFrom(d, <<>>)

\* sorted(set_of_integers)
RECURSIVE SortedSet(_)
SortedSet(S) ==
    IF S = {} THEN <<>>
    ELSE LET m == CHOOSE x \in S : \A y \in S : x <= y
         IN  <<m>> \o SortedSet(S \ {m})

-----------------------------------------------------------------------------
(* Dates.  A date string is [k, sep, a, b, c]: three numerals a, b, c      *)
(* joined by the separator sep, e.g. "2024-01-05" is sep "-" and 2024,1,5. *)
(* k is "str", "empty" (the empty string), "garbage" (a string of no       *)
(* format) or "absent" (None, or no "date" key).                           *)

DateStr(sep, a, b, c) == [k |-> "str", sep |-> sep, a |-> a, b |-> b, c |-> c]
EmptyDate   == [k |-> "empty",   sep |-> "", a |-> 0, b |-> 0, c |-> 0]
GarbageDate == [k |-> "garbage", sep |-> "", a |-> 0, b |-> 0, c |-> 0]
AbsentDate  == [k |-> "absent",  sep |-> "", a |-> 0, b |-> 0, c |-> 0]

IsLeap(y) == (y % 4 = 0 /\ y % 100 # 0) \/ y % 400 = 0

DaysInMonth(y, m) ==
    IF m = 2 THEN (IF IsLeap(y) THEN 29 ELSE 28)
    ELSE IF m \in {4, 6, 9, 11} THEN 30 ELSE 31

\* datetime.strptime accepts the numerals as year (4 digits), month, day.
ValidYMD(y, m, d) ==
    /\ y \in 1000..9999
    /\ m \in 1..12
    /\ d \in 1..DaysInMonth(y, m)

NoDate == [ok |-> FALSE, y |-> 0, m |-> 0]

\* A faulty variant of _parse_date: an unparsable date falls back to a default date.
ParseDateDefaulting(date_str) ==
    IF date_str.k = "str" /\ date_str.sep = "-"
       /\ ValidYMD(date_str.a, date_str.b, date_str.c)
    THEN [ok |-> TRUE, y |-> date_str.a, m |-> date_str.b]
    ELSE [ok |-> TRUE, y |-> 1970, m |-> 1]

\* _parse_date: None for a falsy value; else the first of the four formats
\* "%Y-%m-%d", "%d.%m.%Y", "%Y/%m/%d", "%d/%m/%Y" that parses; else None.
_parse_date(date_str) ==
    IF date_str.k # "str" THEN NoDate
    ELSE IF date_str.sep = "-" /\ ValidYMD(date_str.a, date_str.b, date_str.c)
         THEN [ok |-> TRUE, y |-> date_str.a, m |-> date_str.b]
    ELSE IF date_str.sep = "." /\ ValidYMD(date_str.c, date_str.b, date_str.a)
         THEN [ok |-> TRUE, y |-> date_str.c, m |-> date_str.b]
    ELSE IF date_str.sep = "/" /\ ValidYMD(date_str.a, date_str.b, date_str.c)
         THEN [ok |-> TRUE, y |-> date_str.a, m |-> date_str.b]
    ELSE IF date_str.sep = "/" /\ ValidYMD(date_str.c, date_str.b, date_str.a)
         THEN [ok |-> TRUE, y |-> date_str.c, m |-> date_str.b]
    ELSE NoDate

\* date.strftime("%Y-%m"): the key "YYYY-MM" as the integer YYYYMM, whose
\* numeric order is the lexical order of the strings.
MonthKey(date) == date.y * 100 + date.m

-----------------------------------------------------------------------------
(* Amounts and categories of a transaction.                                *)

Num(n) == [k |-> "num", v |-> n]
BadAmount    == [k |-> "bad",    v |-> 0]    \* "abc", None: float() raises
AbsentAmount == [k |-> "absent", v |-> 0]    \* no "amount" key

\* A faulty variant of ParseAmount: an unparsable amount is taken as 0.
ParseAmountLenient(tx) == [ok |-> TRUE, v |-> tx.amount.v]

\* float(tx.get("amount", 0)) under try/except (ValueError, TypeError).
ParseAmount(tx) ==
    IF tx.amount.k = "absent" THEN [ok |-> TRUE, v |-> 0]
    ELSE IF tx.amount.k = "num" THEN [ok |-> TRUE, v |-> tx.amount.v]
    ELSE [ok |-> FALSE, v |-> 0]

ru_OTHER == "other"

Str(s) == [k |-> "str", s |-> s]
AbsentCategory  == [k |-> "absent", s |-> ""]
NonTextCategory == [k |-> "num",    s |-> ""]

\* category = tx.get("category") or ru_OTHER; ru_OTHER unless it is a str.
CategoryOf(tx) ==
    IF tx.category.k = "str" /\ tx.category.s # "" THEN tx.category.s ELSE ru_OTHER

-----------------------------------------------------------------------------
(* Categorizer.  A description or keyword is a sequence of characters.     *)

FOOD == "food"
TRANSPORT == "transport"
ENTERTAINMENT == "entertainment"
HEALTH == "health"
UTILITIES == "utilities"
CLOTHING == "clothing"

\* The keyword lists of the locale module, which is not part of the source
\* at hand: short lower-case keywords stand for them.
FOOD_CATEGORIES == << <<"f">>, <<"g", "r">> >>
TRANSPORT_CATEGORIES == << <<"t">> >>
ENTERTAINMENT_CATEGORIES == << <<"e">> >>
HEALTH_CATEGORIES == << <<"h">> >>
UTILITIES_CATEGORIES == << <<"u">> >>
CLOTHING_CATEGORIES == << <<"c">> >>

\* create_categories: the category table in insertion order.
create_categories ==
    << [key |-> FOOD,          val |-> FOOD_CATEGORIES],
       [key |-> TRANSPORT,     val |-> TRANSPORT_CATEGORIES],
       [key |-> ENTERTAINMENT, val |-> ENTERTAINMENT_CATEGORIES],
       [key |-> HEALTH,        val |-> HEALTH_CATEGORIES],
       [key |-> UTILITIES,     val |-> UTILITIES_CATEGORIES],
       [key |-> CLOTHING,      val |-> CLOTHING_CATEGORIES] >>

\* str.lower() on one character.
LowerChar(c) ==
    IF c = "F" THEN "f" ELSE IF c = "T" THEN "t" ELSE IF c = "G" THEN "g"
    ELSE IF c = "R" THEN "r" ELSE c

Lower(s) == [i \in 1..Len(s) |-> LowerChar(s[i])]

\* A faulty variant of IsSubstring: description_lower.startswith(keyword).
IsPrefix(kw, s) == Len(kw) <= Len(s) /\ SubSeq(s, 1, Len(kw)) = kw

\* keyword in description_lower
IsSubstring(kw, s) ==
    \E i \in 0..(Len(s) - Len(kw)) : SubSeq(s, i + 1, i + Len(kw)) = kw

\* categorize_transaction: the first category of the table, in insertion
\* order, one of whose keywords occurs in the lower-cased description.
categorize_transaction(description, categories) ==
    LET description_lower == Lower(description)
        Matches(i) == \E j \in 1..Len(categories[i].val) :
                          IsSubstring(categories[i].val[j], description_lower)
    IN  IF \E i \in 1..Len(categories) : Matches(i)
        THEN categories[CHOOSE i \in 1..Len(categories) :
                 Matches(i) /\ \A h \in 1..(i - 1) : ~Matches(h)].key
        ELSE ru_OTHER

\* categorize_all_transactions: a copy of every transaction with its category.
categorize_all_transactions(txs) ==
    [i \in 1..Len(txs) |->
        [txs[i] EXCEPT !.category =
            Str(categorize_transaction(txs[i].description, create_categories))]]

-----------------------------------------------------------------------------
(* Aggregator: calculate_basic_stats.                                      *)

\* The loop of calculate_basic_stats from transaction i on.
RECURSIVE BasicStatsLoop(_, _, _)
BasicStatsLoop(txs, i, acc) ==
    IF i > Len(txs) THEN acc
    ELSE LET amount == ParseAmount(txs[i]) IN
         IF ~amount.ok THEN BasicStatsLoop(txs, i + 1, acc)
         ELSE IF amount.v >= 0
         THEN BasicStatsLoop(txs, i + 1,
                  [acc EXCEPT !.total_income = @ + amount.v, !.income_count = @ + 1])
         ELSE BasicStatsLoop(txs, i + 1,
                  [acc EXCEPT !.total_expense = @ + Abs(amount.v), !.expense_count = @ + 1])

\* A faulty variant of Balance: the balance taken from the rounded totals.
BalanceOfRounded(total_income, total_expense) ==
    Round2(total_income) - Round2(total_expense)

\* balance = total_income - total_expense, on the unrounded sums.
Balance(total_income, total_expense) == total_income - total_expense

calculate_basic_stats(txs) ==
    LET acc == BasicStatsLoop(txs, 1,
                   [total_income |-> 0, total_expense |-> 0,
                    income_count |-> 0, expense_count |-> 0])
        balance == Balance(acc.total_income, acc.total_expense)
    IN  [total_income       |-> Round2(acc.total_income),
         total_expense      |-> Round2(acc.total_expense),
         balance            |-> Round2(balance),
         transactions_count |-> Len(txs),
         income_count       |-> acc.income_count,
         expense_count      |-> acc.expense_count]

-----------------------------------------------------------------------------
(* Aggregator: calculate_by_category.                                      *)

\* The loop of calculate_by_category from transaction i on.
RECURSIVE ByCategoryLoop(_, _, _)
ByCategoryLoop(txs, i, acc) ==
    IF i > Len(txs) THEN acc
    ELSE LET amount == ParseAmount(txs[i])
             category == CategoryOf(txs[i])
             expense == Abs(amount.v)
         IN  IF ~amount.ok THEN ByCategoryLoop(txs, i + 1, acc)
             ELSE ByCategoryLoop(txs, i + 1,
                    [category_totals |-> AddTo(acc.category_totals, category, amount.v),
                     category_counts |-> AddTo(acc.category_counts, category, 1),
                     category_expense_totals |->
                         IF amount.v < 0
                         THEN AddTo(acc.category_expense_totals, category, expense)
                         ELSE acc.category_expense_totals,
                     total_expenses |->
                         IF amount.v < 0 THEN acc.total_expenses + expense
                         ELSE acc.total_expenses])

\* A faulty variant of Percent: the share rounded up instead of to nearest.
PercentCeil(expense_total, total_expenses) ==
    IF total_expenses > 0
    THEN 10 * (-((-(expense_total * 10000)) \div total_expenses))
    ELSE 0

\* round((expense_total / total_expenses * 100) if total_expenses > 0 else 0, 2)
Percent(expense_total, total_expenses) ==
    IF total_expenses > 0
    THEN 10 * RoundHalfEven(expense_total * 10000, total_expenses)
    ELSE 0

calculate_by_category(txs) ==
    LET acc == ByCategoryLoop(txs, 1,
                   [category_totals |-> <<>>, category_counts |-> <<>>,
                    category_expense_totals |-> <<>>, total_expenses |-> 0])
    IN  [i \in 1..Len(acc.category_counts) |->
            LET cat == acc.category_counts[i].key
                expense_total == Get(acc.category_expense_totals, cat, 0)
            IN  [key |-> cat,
                 val |-> [total |-> Round2(Get(acc.category_totals, cat, 0)),
                          expense_total |-> Round2(expense_total),
                          count |-> acc.category_counts[i].val,
                          percent_of_expenses |->
                              Percent(expense_total, acc.total_expenses)]]]

-----------------------------------------------------------------------------
(* Aggregator: analyze_by_time.                                            *)

\* The loop of analyze_by_time from transaction i on.
RECURSIVE ByTimeLoop(_, _, _)
ByTimeLoop(txs, i, acc) ==
    IF i > Len(txs) THEN acc
    ELSE LET date == _parse_date(txs[i].date)
             month_key == MonthKey(date)
             amount == ParseAmount(txs[i])
             category == CategoryOf(txs[i])
             exp == Abs(amount.v)
         IN  IF ~date.ok THEN ByTimeLoop(txs, i + 1, acc)
             ELSE IF ~amount.ok THEN ByTimeLoop(txs, i + 1, acc)
             ELSE IF amount.v >= 0
             THEN ByTimeLoop(txs, i + 1,
                      [acc EXCEPT !.months_income = AddTo(@, month_key, amount.v)])
             ELSE ByTimeLoop(txs, i + 1,
                      [acc EXCEPT
                          !.months_expense = AddTo(@, month_key, exp),
                          !.months_category_expense =
                              Put(@, month_key,
                                  AddTo(Get(@, month_key, <<>>), category, exp))])

\* top = sorted(cat_exp.items(), key=amount, reverse=True)[:3], amounts rounded.
TopCategories(cat_exp) ==
    LET top == Take(SortByValueDesc(cat_exp), 3)
    IN  [i \in 1..Len(top) |-> [key |-> top[i].key, val |-> Round2(top[i].val)]]

analyze_by_time(txs) ==
    LET acc == ByTimeLoop(txs, 1,
                   [months_income |-> <<>>, months_expense |-> <<>>,
                    months_category_expense |-> <<>>])
        months == SortedSet(Keys(acc.months_income) \cup Keys(acc.months_expense))
    IN  [i \in 1..Len(months) |->
            [key |-> months[i],
             val |-> [income  |-> Round2(Get(acc.months_income, months[i], 0)),
                      expense |-> Round2(Get(acc.months_expense, months[i], 0)),
                      top_categories |->
                          TopCategories(Get(acc.months_category_expense,
                                            months[i], <<>>))]]]

-----------------------------------------------------------------------------
(* Historical analyzer.                                                    *)

\* A Python float, and a dict, as the value of average_monthly_spending.
NumberValue(n) == [k |-> "num", v |-> n, items |-> <<>>]
MapValue(d)    == [k |-> "map", v |-> 0, items |-> d]

\* The loop over months_analysis.values() from month i on.
RECURSIVE HistoricalLoop(_, _, _)
HistoricalLoop(months, i, acc) ==
    IF i > Len(months) THEN acc
    ELSE LET month_data == months[i].val
             AddTops(totals, j) ==
                 AddTo(totals, month_data.top_categories[j].key,
                       month_data.top_categories[j].val)
             RECURSIVE TopsFrom(_, _)
             TopsFrom(totals, j) ==
                 IF j > Len(month_data.top_categories) THEN totals
                 ELSE TopsFrom(AddTops(totals, j), j + 1)
         IN  HistoricalLoop(months, i + 1,
                 [total_spending |-> acc.total_spending + month_data.expense,
                  total_income |-> acc.total_income + month_data.income,
                  category_totals |-> TopsFrom(acc.category_totals, 1)])

analyze_historical_spending(months) ==
    LET month_count == Len(months)
        acc == HistoricalLoop(months, 1,
                   [total_spending |-> 0, total_income |-> 0, category_totals |-> <<>>])
    IN  [average_monthly_spending |->
             NumberValue(IF month_count > 0
                         THEN Round2Div(acc.total_spending, month_count) ELSE 0),
         average_monthly_income |->
             IF month_count > 0 THEN Round2Div(acc.total_income, month_count) ELSE 0,
         total_avg_spending |->
             IF month_count > 0 THEN Round2Div(acc.total_spending, month_count) ELSE 0,
         top_categories |-> Take(SortByValueDesc(acc.category_totals), 3)]

-----------------------------------------------------------------------------
(* Budget builder.                                                         *)

\* round(x * t / 10) for a multiplier of t tenths: round(x * 0.9), round(x * 0.2).
RoundTenths(x, t) == 1000 * RoundHalfEven(x * t, 10000)

\* A faulty variant of BudgetLimit: the 0.9 multiplier left out.
BudgetLimitFull(avg_amount) == Round0(avg_amount)

\* budget_limits[category] = round(avg_amount * 0.9)
BudgetLimit(avg_amount) == RoundTenths(avg_amount, 9)

\* avg_spending.items() exists: avg_spending is a dict.
HasItems(value) == value.k = "map"

create_budget_template(an, current_stats) ==
    LET avg_spending == an.average_monthly_spending
        total_avg_spending == an.total_avg_spending
        avg_income == an.average_monthly_income
        current_income == current_stats.total_income
        current_spending == current_stats.total_expense
        budget_limits ==
            [i \in 1..Len(avg_spending.items) |->
                [key |-> avg_spending.items[i].key,
                 val |-> BudgetLimit(avg_spending.items[i].val)]]
        good == current_income >= avg_income /\ current_spending <= total_avg_spending
        verdict ==
            IF good THEN "good"
            ELSE IF current_income < avg_income THEN "income_below_average"
            ELSE "spending_above_average"
        advice ==
            IF good
            THEN IF an.top_categories # <<>>
                 THEN [kind |-> "reduce", category |-> an.top_categories[1].key,
                       amount |-> RoundTenths(an.top_categories[1].val, 1)]
                 ELSE [kind |-> "keep_going", category |-> "", amount |-> 0]
            ELSE IF current_income < avg_income
            THEN [kind |-> "raise_income", category |-> "",
                  amount |-> Round0(avg_income - current_income)]
            ELSE [kind |-> "cut_spending", category |-> "",
                  amount |-> Round0(current_spending - total_avg_spending)]
        savings_target == RoundTenths(current_income, 2)
    IN  [verdict |-> verdict,
         advice |-> advice,
         goal |-> savings_target,
         budget_limits |-> budget_limits,
         savings_target |-> savings_target]

-----------------------------------------------------------------------------
(* Budget comparator: the second definition of compare_budget_vs_actual,   *)
(* which replaces the first when the module is loaded.                     *)

WITHIN == "within_budget"
EXCEEDED == "exceeded"

\* actual_spending[category] = data["expense_total"]
ActualSpending(cat_stats) ==
    [i \in 1..Len(cat_stats) |->
        [key |-> cat_stats[i].key, val |-> cat_stats[i].val.expense_total]]

\* A faulty variant of Status: a category exactly on its limit counted as exceeded.
StatusStrict(difference) == IF difference > 0 THEN WITHIN ELSE EXCEEDED

\* status = within if difference >= 0 else exceeded
Status(difference) == IF difference >= 0 THEN WITHIN ELSE EXCEEDED

\* A faulty variant of TotalActual: only the categories that have a budget limit.
TotalActualBudgeted(actual_spending, budget_limits) ==
    SumValues(SelectSeq(actual_spending, LAMBDA e : Has(budget_limits, e.key)))

\* total_actual = sum(actual_spending.values())
TotalActual(actual_spending, budget_limits) == SumValues(actual_spending)

compare_budget_vs_actual(bdg, cat_stats) ==
    LET actual_spending == ActualSpending(cat_stats)
        limits == bdg.budget_limits
        comparison ==
            [i \in 1..Len(limits) |->
                LET actual == Get(actual_spending, limits[i].key, 0)
                    difference == limits[i].val - actual
                IN  [key |-> limits[i].key,
                     val |-> [budget |-> limits[i].val,
                              actual |-> actual,
                              difference |-> Abs(difference),
                              status |-> Status(difference)]]]
        total_budget == SumValues(limits)
        total_actual == TotalActual(actual_spending, limits)
    IN  [comparison |-> comparison,
         within_budget |->
             KeySeq(SelectSeq(comparison, LAMBDA e : e.val.status = WITHIN)),
         exceeded_budget |->
             KeySeq(SelectSeq(comparison, LAMBDA e : e.val.status # WITHIN)),
         total_budget |-> total_budget,
         total_actual |-> total_actual,
         overall_status |-> IF total_actual <= total_budget THEN WITHIN ELSE EXCEEDED]

-----------------------------------------------------------------------------
(* Inputs.                                                                 *)

\* All lists of at most n elements of R.
ListsOver(R, n) == UNION {[1..len -> R] : len \in 0..n}

Tx(date, amount, description, category) ==
    [date |-> date, amount |-> amount, description |-> description,
     category |-> category]

Jan05  == DateStr("-", 2024, 1, 5)     \* "2024-01-05"
Feb10  == DateStr(".", 10, 2, 2024)    \* "10.02.2024"
Jan07  == DateStr("/", 2024, 1, 7)     \* "2024/01/07"
Feb07  == DateStr("/", 7, 2, 2024)     \* "07/02/2024"
Month13 == DateStr("-", 2024, 13, 1)   \* "2024-13-01"

\* Raw rows handed to import_financial_data: a date, a numeric amount, and
\* a description that may be missing.
RawRows ==
    {[date |-> d, amount |-> a, description |-> ds] :
        d \in {Jan05, Feb10, GarbageDate},
        a \in {-1000, 2000},
        ds \in {[k |-> "str", s |-> <<"F">>], [k |-> "str", s |-> <<"x", "t">>],
                [k |-> "str", s |-> <<"x">>], [k |-> "absent", s |-> <<>>]}}

\* Transactions that differ in their amount only.
RowsStats ==
    {Tx(Jan05, a, <<>>, Str(FOOD)) :
        a \in {Num(6), Num(-2), Num(1500), Num(-1000), BadAmount, AbsentAmount}}

\* Transactions that differ in amount and category.
RowsCat ==
    {Tx(Jan05, Num(a), <<>>, c) :
        a \in {-1000, -5000, 2000},
        c \in {Str(FOOD), Str(TRANSPORT), AbsentCategory}}
    \cup {Tx(Jan05, BadAmount, <<>>, Str(FOOD)),
          Tx(Jan05, Num(-1000), <<>>, NonTextCategory),
          Tx(Jan05, Num(-1000), <<>>, Str(""))}

\* Expenses of one month over four categories, an income and an expense
\* with a fraction of a cent.
RowsTop ==
    {Tx(Jan05, Num(-1000), <<>>, Str(c)) : c \in {FOOD, TRANSPORT, HEALTH, CLOTHING}}
    \cup {Tx(Jan05, Num(-2000), <<>>, Str(c)) : c \in {FOOD, TRANSPORT}}
    \cup {Tx(Jan05, Num(3000), <<>>, Str(CLOTHING)),
          Tx(Jan05, Num(-1004), <<>>, Str(HEALTH))}

\* Transactions that differ in their date.
RowsDate ==
    {Tx(d, Num(ac[1]), <<>>, Str(ac[2])) :
        d \in {Jan05, Feb10, Jan07, Feb07, Month13, GarbageDate, EmptyDate, AbsentDate},
        ac \in {<<-1000, FOOD>>, <<2000, FOOD>>, <<-1000, TRANSPORT>>}}

\* The transaction lists the aggregator is called with.
Families ==
    {[rows |-> RowsStats, max |-> MaxTxStats],
     [rows |-> RowsCat,   max |-> MaxTxCat],
     [rows |-> RowsTop,   max |-> MaxTxTop],
     [rows |-> RowsDate,  max |-> MaxTxDate]}

AllRows == UNION {f.rows : f \in Families}

-----------------------------------------------------------------------------
(* main(): import, categorize, the three aggregations, the historical      *)
(* analysis.                                                               *)

Init ==
    /\ pc = "import"
    /\ error = ""
    /\ transactions = <<>>
    /\ stats = None
    /\ months_analysis = None
    /\ category_stats = None
    /\ analysis = None
    /\ budget = None
    /\ budget_comparison = None
    /\ done = {}
    /\ arg_description = <<>>
    /\ arg_categories = <<>>
    /\ matched_category = ""

\* One turn of the loop of import_financial_data over the raw rows.
ImportRow(r) ==
    /\ pc = "import"
    /\ Len(transactions) < MaxTxMain
    /\ transactions' = Append(transactions,
           Tx(r.date, Num(r.amount),
              IF r.description.k = "str" THEN r.description.s ELSE <<>>,
              AbsentCategory))
    /\ UNCHANGED <<pc, error, stats, months_analysis, category_stats, analysis,
                   budget, budget_comparison, done, callvars>>

\* categorized_transactions = categorize_all_transactions(transactions)
CategorizeAll ==
    /\ pc = "import"
    /\ transactions' = categorize_all_transactions(transactions)
    /\ pc' = "stats"
    /\ done' = done \cup {"categorize"}
    /\ UNCHANGED <<error, stats, months_analysis, category_stats, analysis,
                   budget, budget_comparison, callvars>>

\* stats = calculate_basic_stats(categorized_transactions)
CalculateBasicStats ==
    /\ pc = "stats"
    /\ stats' = calculate_basic_stats(transactions)
    /\ pc' = "monthly"
    /\ done' = done \cup {"stats"}
    /\ UNCHANGED <<error, transactions, months_analysis, category_stats, analysis,
                   budget, budget_comparison, callvars>>

\* months_analysis = analyze_by_time(categorized_transactions)
AnalyzeByTime ==
    /\ pc = "monthly"
    /\ months_analysis' = analyze_by_time(transactions)
    /\ pc' = "catstats"
    /\ done' = done \cup {"monthly"}
    /\ UNCHANGED <<error, transactions, stats, category_stats, analysis,
                   budget, budget_comparison, callvars>>

\* category_stats = calculate_by_category(categorized_transactions)
CalculateByCategory ==
    /\ pc = "catstats"
    /\ category_stats' = calculate_by_category(transactions)
    /\ pc' = "historical"
    /\ done' = done \cup {"catstats"}
    /\ UNCHANGED <<error, transactions, stats, months_analysis, analysis,
                   budget, budget_comparison, callvars>>

\* The number of parameters of analyze_historical_spending.
HistoricalParams == 1

\* A call analyze_historical_spending(*args): TypeError unless the number of
\* arguments is the number of parameters.
CallHistorical(args) ==
    /\ pc = "historical"
    /\ IF Len(args) = HistoricalParams
       THEN /\ analysis' = analyze_historical_spending(args[1])
            /\ pc' = "budget"
            /\ done' = done \cup {"historical"}
            /\ error' = error
       ELSE /\ error' = "TypeError"
            /\ pc' = "error"
            /\ UNCHANGED <<analysis, done>>
    /\ UNCHANGED <<transactions, stats, months_analysis, category_stats,
                   budget, budget_comparison, callvars>>

\* main(): analysis = analyze_historical_spending(stats, months_analysis, )
MainAnalyzeHistorical == CallHistorical(<<stats, months_analysis>>)

Next ==
    \/ \E r \in RawRows : ImportRow(r)
    \/ CategorizeAll
    \/ CalculateBasicStats
    \/ AnalyzeByTime
    \/ CalculateByCategory
    \/ MainAnalyzeHistorical

Spec == Init /\ [][Next]_vars

-----------------------------------------------------------------------------
(* The aggregator and the historical analyzer called on transaction lists. *)

InitAgg ==
    /\ pc = "stats"
    /\ error = ""
    /\ transactions = <<>>
    /\ stats = None
    /\ months_analysis = None
    /\ category_stats = None
    /\ analysis = None
    /\ budget = None
    /\ budget_comparison = None
    /\ done = {}
    /\ arg_description = <<>>
    /\ arg_categories = <<>>
    /\ matched_category = ""

\* The caller's list grows by one transaction of its family.
AppendTx(r) ==
    /\ pc = "stats"
    /\ \E f \in Families :
          /\ r \in f.rows
          /\ Len(transactions) < f.max
          /\ \A i \in 1..Len(transactions) : transactions[i] \in f.rows
    /\ transactions' = Append(transactions, r)
    /\ UNCHANGED <<pc, error, stats, months_analysis, category_stats, analysis,
                   budget, budget_comparison, done, callvars>>

\* analysis = analyze_historical_spending(months_analysis)
AnalyzeHistorical == CallHistorical(<<months_analysis>>)

NextAgg ==
    \/ \E r \in AllRows : AppendTx(r)
    \/ CalculateBasicStats
    \/ AnalyzeByTime
    \/ CalculateByCategory
    \/ AnalyzeHistorical

SpecAgg == InitAgg /\ [][NextAgg]_vars

-----------------------------------------------------------------------------
(* The budget builder called on historical analyses and basic stats.       *)

\* All dicts whose key sequence is one of keyseqs and whose values are in values.
DictsOver(keyseqs, values) ==
    UNION {{[i \in 1..Len(ks) |-> [key |-> ks[i], val |-> f[i]]] :
               f \in [1..Len(ks) -> values]} : ks \in keyseqs}

AvgValues == {i * AvgStep : i \in 0..MaxAvgStep}

\* Analyses whose average_monthly_spending is a category -> average dict.
MapAnalyses ==
    {[average_monthly_spending |-> MapValue(m),
      average_monthly_income |-> rest[1],
      total_avg_spending |-> rest[2],
      top_categories |-> rest[3]] :
        m \in DictsOver({<<>>, <<FOOD>>, <<FOOD, TRANSPORT>>, <<TRANSPORT, FOOD>>},
                        AvgValues),
        rest \in {<<0, 0, <<>>>>,
                  <<1000, 1000, <<[key |-> FOOD, val |-> 1000]>>>>}}

\* Analyses as analyze_historical_spending returns them.
ReturnedAnalyses ==
    {analyze_historical_spending(analyze_by_time(t)) : t \in ListsOver(RowsTop, 1)}

\* Basic stats as calculate_basic_stats returns them.
ReturnedStats ==
    {calculate_basic_stats(t) :
        t \in ListsOver({Tx(Jan05, Num(a), <<>>, Str(FOOD)) : a \in {2000, -500, -3000}}, 2)}

InitBudget ==
    /\ pc = "budget"
    /\ error = ""
    /\ transactions = <<>>
    /\ stats \in ReturnedStats
    /\ months_analysis = None
    /\ category_stats = None
    /\ analysis \in MapAnalyses \cup ReturnedAnalyses
    /\ budget = None
    /\ budget_comparison = None
    /\ done = {}
    /\ arg_description = <<>>
    /\ arg_categories = <<>>
    /\ matched_category = ""

\* budget = create_budget_template(analysis, stats): AttributeError at
\* avg_spending.items() unless average_monthly_spending is a dict.
CreateBudget ==
    /\ pc = "budget"
    /\ IF HasItems(analysis.average_monthly_spending)
       THEN /\ budget' = create_budget_template(analysis, stats)
            /\ pc' = "compare"
            /\ done' = done \cup {"budget"}
            /\ error' = error
       ELSE /\ error' = "AttributeError"
            /\ pc' = "error"
            /\ UNCHANGED <<budget, done>>
    /\ UNCHANGED <<transactions, stats, months_analysis, category_stats,
                   analysis, budget_comparison, callvars>>

NextBudget == CreateBudget

SpecBudget == InitBudget /\ [][NextBudget]_vars

-----------------------------------------------------------------------------
(* The budget comparator called on budgets and category stats.             *)

\* A budget template with the given limits.
BudgetWithLimits(limits) ==
    [verdict |-> "good",
     advice |-> [kind |-> "keep_going", category |-> "", amount |-> 0],
     goal |-> 0,
     budget_limits |-> limits,
     savings_target |-> 0]

BudgetInputs ==
    {BudgetWithLimits(l) :
        l \in DictsOver({<<>>, <<FOOD>>, <<TRANSPORT>>, <<FOOD, TRANSPORT>>,
                         <<TRANSPORT, FOOD>>},
                        {i * 1000 : i \in 0..MaxLimit})}

RowsCmp ==
    {Tx(Jan05, Num(a), <<>>, Str(c)) :
        a \in {-1000, -1500, 500}, c \in {FOOD, TRANSPORT, HEALTH}}

\* Category stats as calculate_by_category returns them.
ReturnedCategoryStats ==
    {calculate_by_category(t) : t \in ListsOver(RowsCmp, MaxTxCmp)}

InitCmp ==
    /\ pc = "compare"
    /\ error = ""
    /\ transactions = <<>>
    /\ stats = None
    /\ months_analysis = None
    /\ category_stats \in ReturnedCategoryStats
    /\ analysis = None
    /\ budget \in BudgetInputs
    /\ budget_comparison = None
    /\ done = {}
    /\ arg_description = <<>>
    /\ arg_categories = <<>>
    /\ matched_category = ""

\* budget_comparison = compare_budget_vs_actual(budget, category_stats)
CompareBudget ==
    /\ pc = "compare"
    /\ budget_comparison' = compare_budget_vs_actual(budget, category_stats)
    /\ pc' = "report"
    /\ done' = done \cup {"compare"}
    /\ UNCHANGED <<error, transactions, stats, months_analysis, category_stats,
                   analysis, budget, callvars>>

NextCmp == CompareBudget

SpecCmp == InitCmp /\ [][NextCmp]_vars

-----------------------------------------------------------------------------
(* Properties.  Helpers that restate expected values from the inputs.      *)

\* The sum of f[i] over the indices i in S.
RECURSIVE SumIdx(_, _)
SumIdx(f, S) ==
    IF S = {} THEN 0
    ELSE LET i == CHOOSE x \in S : TRUE IN f[i] + SumIdx(f, S \ {i})

SumSeq(f) == SumIdx(f, DOMAIN f)

\* n is x rounded to the nearest multiple of unit, ties to the even multiple.
IsNearest(n, x, unit) ==
    /\ n % unit = 0
    /\ 2 * Abs(n - x) <= unit
    /\ 2 * Abs(n - x) = unit => (n \div unit) % 2 = 0

\* The amount of transaction i is a number (a missing amount is 0).
Parses(i) == transactions[i].amount.k # "bad"
AmountAt(i) == IF transactions[i].amount.k = "num" THEN transactions[i].amount.v ELSE 0
Parsable == {i \in 1..Len(transactions) : Parses(i)}
Incomes  == {i \in Parsable : AmountAt(i) >= 0}
Expenses == {i \in Parsable : AmountAt(i) < 0}
AbsAmounts == [i \in 1..Len(transactions) |-> Abs(AmountAt(i))]
Amounts == [i \in 1..Len(transactions) |-> AmountAt(i)]

\* C1: for every list of well-formed rows main() runs its stages in order
\* and no stage raises an error.
C1_MainNeverRaises == pc # "error" /\ error = ""

\* The sum over all months of category c's amount in the month's top list.
TopSum(c) ==
    SumSeq([i \in 1..Len(months_analysis) |->
               Get(months_analysis[i].val.top_categories, c, 0)])

TopListed ==
    UNION {Keys(months_analysis[i].val.top_categories) : i \in 1..Len(months_analysis)}

\* C2: analyze_historical_spending returns average_monthly_spending as a
\* mapping category -> average: for every category of some month's
\* top_categories, the sum of its top-list amounts divided by the number of
\* months; no other category is in the mapping.
C2_AverageIsCategoryMapping ==
    "historical" \in done =>
        LET avg == analysis.average_monthly_spending IN
        /\ avg.k = "map"
        /\ Keys(avg.items) = TopListed
        /\ \A c \in TopListed :
              Get(avg.items, c, 0) * Len(months_analysis) = TopSum(c)

\* The expense totals of the category stats, and those of the budgeted ones.
ExpenseTotals == [i \in 1..Len(category_stats) |-> category_stats[i].val.expense_total]
Budgeted == {i \in 1..Len(category_stats) :
                Has(budget.budget_limits, category_stats[i].key)}
LimitValues == [i \in 1..Len(budget.budget_limits) |-> budget.budget_limits[i].val]

\* C3 as claimed: total_budget is the sum of all budget limits, total_actual
\* is the sum of the expense totals of the categories that have a budget
\* limit only, and overall_status is within-budget iff
\* total_actual <= total_budget.
C3_TotalActualOverBudgetedOnly ==
    "compare" \in done =>
        /\ budget_comparison.total_budget = SumSeq(LimitValues)
        /\ budget_comparison.total_actual = SumIdx(ExpenseTotals, Budgeted)
        /\ budget_comparison.overall_status = WITHIN
               <=> budget_comparison.total_actual <= budget_comparison.total_budget

\* C3 amended: total_budget is the sum of all budget limits, total_actual is
\* the sum of the expense totals of ALL categories of the category stats,
\* with or without a budget limit, and overall_status is within-budget iff
\* total_actual <= total_budget.
C3_TotalActualOverAllCategories ==
    "compare" \in done =>
        /\ budget_comparison.total_budget = SumSeq(LimitValues)
        /\ budget_comparison.total_actual = SumSeq(ExpenseTotals)
        /\ budget_comparison.overall_status = WITHIN
               <=> budget_comparison.total_actual <= budget_comparison.total_budget

\* C3 witness: a comparison in which a category without a budget limit has
\* expenses and some category has a limit.
C3_UnbudgetedExpenseCompared ==
    /\ "compare" \in done
    /\ budget.budget_limits # <<>>
    /\ \E i \in 1..Len(category_stats) :
          i \notin Budgeted /\ category_stats[i].val.expense_total > 0

AvgItems == analysis.average_monthly_spending.items

\* C4 as claimed: for every category c of the average mapping (averages are
\* non-negative), budget_limits[c] = round(average * 0.9), an integer, and
\* budget_limits[c] <= average.
C4_LimitAtMostAverage ==
    "budget" \in done =>
        /\ KeySeq(budget.budget_limits) = KeySeq(AvgItems)
        /\ \A i \in 1..Len(AvgItems) :
              /\ IsNearest(10 * budget.budget_limits[i].val, 9 * AvgItems[i].val, 10000)
              /\ budget.budget_limits[i].val <= AvgItems[i].val

\* C4 amended: for every category c of the average mapping,
\* budget_limits[c] is the integer nearest to average * 0.9 (ties to even),
\* so budget_limits[c] <= average * 0.9 + 0.5; it is <= average whenever
\* average >= 5, and may exceed a smaller average.
C4_LimitIsRoundedNinetyPercent ==
    "budget" \in done =>
        /\ KeySeq(budget.budget_limits) = KeySeq(AvgItems)
        /\ \A i \in 1..Len(AvgItems) :
              LET limit == budget.budget_limits[i].val
                  avg == AvgItems[i].val
              IN  /\ IsNearest(10 * limit, 9 * avg, 10000)
                  /\ 10 * limit <= 9 * avg + 5000
                  /\ avg >= 5000 => limit <= avg

\* C4 witness: a budget whose limit for a category is above the category's
\* average, next to a category whose average is at least 5.
C4_LimitAboveAverage ==
    /\ "budget" \in done
    /\ \E i \in 1..Len(AvgItems) : budget.budget_limits[i].val > AvgItems[i].val
    /\ \E i \in 1..Len(AvgItems) : AvgItems[i].val >= 5000

\* C5: calculate_basic_stats returns transactions_count = the length of the
\* list and income_count + expense_count <= transactions_count, with
\* equality iff every amount parses; a transaction with an unparsable
\* amount adds nothing to the totals and counts.
C5_CountsOnlyParsableAmounts ==
    "stats" \in done =>
        /\ stats.transactions_count = Len(transactions)
        /\ stats.income_count + stats.expense_count <= stats.transactions_count
        /\ stats.income_count + stats.expense_count = stats.transactions_count
               <=> \A i \in 1..Len(transactions) : Parses(i)
        /\ stats.income_count = Cardinality(Incomes)
        /\ stats.expense_count = Cardinality(Expenses)
        /\ IsNearest(stats.total_income, SumIdx(Amounts, Incomes), 10)
        /\ IsNearest(stats.total_expense, SumIdx(AbsAmounts, Expenses), 10)

\* C5 witness: basic stats of a list that holds an unparsable amount, an
\* income and an expense.
C5_UnparsableAmongParsable ==
    /\ "stats" \in done
    /\ \E i \in 1..Len(transactions) : ~Parses(i)
    /\ Incomes # {} /\ Expenses # {}
    /\ stats.income_count + stats.expense_count < stats.transactions_count

\* C6 as claimed: for every non-empty list the returned, rounded values
\* satisfy balance = total_income - total_expense exactly.
C6_BalanceIsDifferenceOfRoundedTotals ==
    ("stats" \in done /\ transactions # <<>>) =>
        stats.balance = stats.total_income - stats.total_expense

\* C6 amended: balance is the unrounded income sum minus the unrounded
\* expense sum, rounded to 2 decimal places; it is within 0.01 of the
\* difference of the returned total_income and total_expense.
C6_BalanceIsRoundedDifference ==
    ("stats" \in done /\ transactions # <<>>) =>
        /\ IsNearest(stats.balance,
                     SumIdx(Amounts, Incomes) - SumIdx(AbsAmounts, Expenses), 10)
        /\ Abs(stats.balance - (stats.total_income - stats.total_expense)) <= 10

\* C6 witness: basic stats whose balance is not the difference of the
\* returned totals.
C6_BalanceOffByACent ==
    /\ "stats" \in done
    /\ transactions # <<>>
    /\ stats.balance # stats.total_income - stats.total_expense

\* The unrounded expense sum of category c, and of all categories.
CategoryExpense(c) ==
    SumIdx(AbsAmounts, {i \in Expenses : CategoryOf(transactions[i]) = c})
TotalExpense == SumIdx(AbsAmounts, Expenses)
Percents == [i \in 1..Len(category_stats) |-> category_stats[i].val.percent_of_expenses]

\* C7 as claimed: the percent_of_expenses values, each rounded to 2 decimal
\* places, sum to at most 100, and each is 0 when the total of all expenses
\* is 0.
C7_PercentagesSumToAtMost100 ==
    "catstats" \in done =>
        /\ SumSeq(Percents) <= 100000
        /\ TotalExpense = 0 => \A i \in 1..Len(category_stats) : Percents[i] = 0

\* C7 amended: each percent_of_expenses is the category's share of all
\* expenses in percent rounded to 2 decimal places, so it is within 0.005
\* of the exact share and the sum over n categories is at most
\* 100 + 0.005 * n (it can exceed 100); each is 0 when the total of all
\* expenses is 0.
C7_PercentagesWithinRounding ==
    "catstats" \in done =>
        /\ \A i \in 1..Len(category_stats) :
              /\ Percents[i] % 10 = 0
              /\ Abs(Percents[i] * TotalExpense
                     - 100000 * CategoryExpense(category_stats[i].key))
                    <= 5 * TotalExpense
        /\ SumSeq(Percents) <= 100000 + 5 * Len(category_stats)
        /\ TotalExpense = 0 => \A i \in 1..Len(category_stats) : Percents[i] = 0

\* C7 witness: category stats whose percentages sum to more than 100.
C7_PercentagesAbove100 ==
    /\ "catstats" \in done
    /\ SumSeq(Percents) > 100000

\* The month "YYYY-MM" (as YYYYMM) a date string falls in, 0 if it has none
\* of the four accepted formats.
DatedAs(d) ==
    IF d.k # "str" THEN 0
    ELSE IF d.sep = "-" THEN (IF ValidYMD(d.a, d.b, d.c) THEN d.a * 100 + d.b ELSE 0)
    ELSE IF d.sep = "." THEN (IF ValidYMD(d.c, d.b, d.a) THEN d.c * 100 + d.b ELSE 0)
    ELSE IF d.sep = "/" THEN (IF ValidYMD(d.a, d.b, d.c) THEN d.a * 100 + d.b
                              ELSE IF ValidYMD(d.c, d.b, d.a) THEN d.c * 100 + d.b
                              ELSE 0)
    ELSE 0

MonthAt(i) == DatedAs(transactions[i].date)
Undated == {i \in 1..Len(transactions) : MonthAt(i) = 0}

\* The expenses of month m, its categories, a category's unrounded expense
\* sum in the month and the position of its first expense of the month.
MonthExpenses(m) == {i \in Expenses : MonthAt(i) = m}
MonthCats(m) == {CategoryOf(transactions[i]) : i \in MonthExpenses(m)}
MonthCatIdx(m, c) == {i \in MonthExpenses(m) : CategoryOf(transactions[i]) = c}
MonthCatExpense(m, c) == SumIdx(AbsAmounts, MonthCatIdx(m, c))
FirstExpense(m, c) ==
    CHOOSE i \in MonthCatIdx(m, c) : \A j \in MonthCatIdx(m, c) : i <= j

CategoryIdx(c) == {i \in Parsable : CategoryOf(transactions[i]) = c}

\* C9: a transaction whose date is missing or has none of the four formats,
\* but whose amount parses, contributes to no month of analyze_by_time (no
\* income, no expense, no top category, no month key), while
\* calculate_basic_stats and calculate_by_category still count it; the
\* contributions of the other transactions are as without it.
C9_UndatedLeftOutOfMonthsOnly ==
    {"stats", "monthly", "catstats"} \subseteq done =>
        /\ Keys(months_analysis) = {MonthAt(i) : i \in Parsable \ Undated}
        /\ \A k \in 1..Len(months_analysis) :
              LET m == months_analysis[k].key
                  month == months_analysis[k].val
              IN  /\ IsNearest(month.income,
                               SumIdx(Amounts, {i \in Incomes : MonthAt(i) = m}), 10)
                  /\ IsNearest(month.expense, SumIdx(AbsAmounts, MonthExpenses(m)), 10)
                  /\ {month.top_categories[i].key : i \in 1..Len(month.top_categories)}
                         \subseteq MonthCats(m)
        /\ months_analysis =
               analyze_by_time(SelectSeq(transactions, LAMBDA t : DatedAs(t.date) # 0))
        /\ stats.income_count = Cardinality(Incomes)
        /\ stats.expense_count = Cardinality(Expenses)
        /\ IsNearest(stats.total_income, SumIdx(Amounts, Incomes), 10)
        /\ IsNearest(stats.total_expense, SumIdx(AbsAmounts, Expenses), 10)
        /\ Keys(category_stats) = {CategoryOf(transactions[i]) : i \in Parsable}
        /\ \A k \in 1..Len(category_stats) :
              LET c == category_stats[k].key
                  data == category_stats[k].val
              IN  /\ data.count = Cardinality(CategoryIdx(c))
                  /\ IsNearest(data.total, SumIdx(Amounts, CategoryIdx(c)), 10)
                  /\ IsNearest(data.expense_total, CategoryExpense(c), 10)

\* C9 witness: all three aggregations of a list that holds an undated
\* expense and a dated transaction.
C9_UndatedAmongDated ==
    /\ {"stats", "monthly", "catstats"} \subseteq done
    /\ Undated \cap Expenses # {}
    /\ Parsable \ Undated # {}
    /\ months_analysis # <<>>
    /\ stats.expense_count > 0

Range(f) == {f[i] : i \in DOMAIN f}

\* C10: the keys of comparison are exactly the categories of budget_limits;
\* for each, actual is the category's expense_total or 0 if it has no
\* stats, difference = |budget_limit - actual| and status is within-budget
\* exactly when actual <= budget_limit; within_budget and exceeded_budget
\* are disjoint, hold every budgeted category exactly once, each in the
\* list of its status.
C10_ComparisonPerBudgetedCategory ==
    "compare" \in done =>
        LET limits == budget.budget_limits
            cmp == budget_comparison
        IN  /\ KeySeq(cmp.comparison) = KeySeq(limits)
            /\ \A i \in 1..Len(limits) :
                  LET c == limits[i].key
                      row == cmp.comparison[i].val
                      actual == IF \E j \in 1..Len(category_stats) :
                                       category_stats[j].key = c
                                THEN ExpenseTotals[CHOOSE j \in 1..Len(category_stats) :
                                                      category_stats[j].key = c]
                                ELSE 0
                  IN  /\ row.budget = limits[i].val
                      /\ row.actual = actual
                      /\ row.difference = Abs(limits[i].val - actual)
                      /\ row.status \in {WITHIN, EXCEEDED}
                      /\ row.status = WITHIN <=> actual <= limits[i].val
                      /\ c \in Range(cmp.within_budget) <=> row.status = WITHIN
                      /\ c \in Range(cmp.exceeded_budget) <=> row.status = EXCEEDED
            /\ Range(cmp.within_budget) \cap Range(cmp.exceeded_budget) = {}
            /\ Range(cmp.within_budget) \cup Range(cmp.exceeded_budget) = Keys(limits)
            /\ Len(cmp.within_budget) + Len(cmp.exceeded_budget) = Len(limits)

\* C10 witness: a comparison with one category within and one over its
\* limit, a budgeted category without stats and a category spending
\* exactly its non-zero limit.
C10_WithinAndExceeded ==
    /\ "compare" \in done
    /\ budget_comparison.within_budget # <<>>
    /\ budget_comparison.exceeded_budget # <<>>
    /\ \E i \in 1..Len(budget.budget_limits) :
          \/ ~Has(category_stats, budget.budget_limits[i].key)
          \/ /\ budget_comparison.comparison[i].val.actual = budget.budget_limits[i].val
             /\ budget.budget_limits[i].val > 0
    /\ \E j \in 1..Len(category_stats) : j \notin Budgeted

-----------------------------------------------------------------------------
(* categorize_transaction called on descriptions and category tables.      *)

\* Descriptions: strings of lower- and upper-case characters.
Descriptions == ListsOver({"f", "F", "t", "x"}, MaxDescLen)

\* Keyword lists: none, one or two keywords, among them the empty string,
\* a two-character keyword and an upper-case keyword.
KeywordLists ==
    { <<>>, << <<>> >>, << <<"f">> >>, << <<"t">> >>, << <<"x", "f">> >>,
      << <<"F">> >>, << <<"t">>, <<"f">> >>, << <<"x", "f">>, <<"t">> >> }

\* Category tables of up to three categories, in either order of the first two.
CategoryTables ==
    DictsOver({<<>>, <<FOOD>>, <<FOOD, TRANSPORT>>, <<TRANSPORT, FOOD>>,
               <<FOOD, TRANSPORT, HEALTH>>}, KeywordLists)

InitCategorize ==
    /\ pc = "categorize_transaction"
    /\ error = ""
    /\ transactions = <<>>
    /\ stats = None
    /\ months_analysis = None
    /\ category_stats = None
    /\ analysis = None
    /\ budget = None
    /\ budget_comparison = None
    /\ done = {}
    /\ arg_description \in Descriptions
    /\ arg_categories \in CategoryTables
    /\ matched_category = ""

\* category = categorize_transaction(description, categories)
CategorizeTransaction ==
    /\ pc = "categorize_transaction"
    /\ matched_category' = categorize_transaction(arg_description, arg_categories)
    /\ pc' = "done"
    /\ done' = done \cup {"categorize_transaction"}
    /\ UNCHANGED <<error, transactions, stats, months_analysis, category_stats,
                   analysis, budget, budget_comparison, arg_description,
                   arg_categories>>

NextCategorize == CategorizeTransaction

SpecCategorize == InitCategorize /\ [][NextCategorize]_vars

\* Keyword kw occurs in the lower-cased description d at some offset.
Occurs(kw, d) ==
    \E i \in 0..Len(d) :
        /\ i + Len(kw) <= Len(d)
        /\ \A j \in 1..Len(kw) : kw[j] = LowerChar(d[i + j])

\* Category k of the table has a keyword that occurs in the description.
CategoryMatches(k) ==
    \E j \in 1..Len(arg_categories[k].val) :
        Occurs(arg_categories[k].val[j], arg_description)

\* The result is the first matching category of the table, or "other".
FirstMatchReturned ==
    /\ \A k \in 1..Len(arg_categories) :
          (CategoryMatches(k) /\ \A h \in 1..(k - 1) : ~CategoryMatches(h))
              => matched_category = arg_categories[k].key
    /\ (\A k \in 1..Len(arg_categories) : ~CategoryMatches(k))
          => matched_category = ru_OTHER

HasEmptyKeyword ==
    \E k \in 1..Len(arg_categories) :
        \E j \in 1..Len(arg_categories[k].val) : arg_categories[k].val[j] = <<>>

\* C11 as claimed: categorize_transaction returns the first category, in
\* table insertion order, that has a keyword occurring as a substring of
\* the lower-cased description, "other" when no category has one, and in
\* particular "other" for the empty description, whatever the table.
C11_EmptyDescriptionAlwaysOther ==
    "categorize_transaction" \in done =>
        /\ FirstMatchReturned
        /\ arg_description = <<>> => matched_category = ru_OTHER

\* C11 amended: categorize_transaction returns the first category, in table
\* insertion order, that has a keyword occurring as a substring of the
\* lower-cased description, and "other" when no category has one; the
\* empty description yields "other" when no keyword of the table is the
\* empty string (an empty keyword occurs in every description, the empty
\* one included).
C11_FirstMatchingCategory ==
    "categorize_transaction" \in done =>
        /\ FirstMatchReturned
        /\ (arg_description = <<>> /\ ~HasEmptyKeyword) => matched_category = ru_OTHER

\* C11 witness: a description with an upper-case character and a keyword
\* past its first character, matched by two categories of the table, the
\* first of which is returned.
C11_TwoCategoriesMatch ==
    /\ "categorize_transaction" \in done
    /\ Len(arg_description) = 2
    /\ arg_description[2] = "F"
    /\ Len(arg_categories) >= 2
    /\ CategoryMatches(1) /\ CategoryMatches(2)
    /\ ~Occurs(arg_categories[1].val[1], <<arg_description[1]>>)
    /\ matched_category = arg_categories[1].key

====
